---- MODULE Spec2Model ----
(***************************************************************************)
(* Model of mikitsu/misc-utils:                                            *)
(*   - the directional grid placement of tkstuff.ContainingWidget          *)
(*   - the validator chain of misc.validation                              *)
(***************************************************************************)
EXTENDS Integers, Sequences, FiniteSets, TLC

\* ------------------------------------------------------------------------
\* Bounds of the layout model
\* ------------------------------------------------------------------------
MaxWidgets == 4
MaxBound == 3

\* ------------------------------------------------------------------------
\* tkinter direction symbols used by ContainingWidget
\* ------------------------------------------------------------------------
RIGHT == "right"
LEFT == "left"
TOP == "top"
BOTTOM == "bottom"
CENTER == "center"

Symbols == {RIGHT, LEFT, TOP, BOTTOM, CENTER}

\* rcoords=None, and a widget that is not a child of the container
NoWidget == 0
Outsider == MaxWidgets + 1

VARIABLES direction, horizontal, vertical, nWidgets,
          status, rcoords, placed, ret,
          validator, arg, outcome, trace, firstCall,
          formClass, form, content, data, errors, result, validated, onsubmitCalls, lastOp,
          setterCalls,
          lock, stack, finished

layoutVars == <<direction, horizontal, vertical, nWidgets, status, rcoords, placed, ret>>
validVars == <<validator, arg, outcome, trace, firstCall>>
formVars == <<formClass, form, content, data, errors, result, validated, onsubmitCalls, lastOp,
              setterCalls>>
threadVars == <<lock, stack, finished>>
vars == <<direction, horizontal, vertical, nWidgets, status, rcoords, placed, ret,
          validator, arg, outcome, trace, firstCall,
          formClass, form, content, data, errors, result, validated, onsubmitCalls, lastOp,
          setterCalls, lock, stack, finished>>

\* ------------------------------------------------------------------------
\* ContainingWidget.grid_subwidgets
\* ------------------------------------------------------------------------
InDirection(sym, dir) == dir[1] = sym \/ dir[2] = sym

\* mutant: the unbounded LEFT start is the widget count
XStart_OffByOne(dir, h, n) ==
    IF InDirection(RIGHT, dir)
    THEN [bound |-> TRUE, s |-> 0, i |-> 1]
    ELSE IF InDirection(LEFT, dir)
         THEN [bound |-> TRUE, s |-> IF h # 0 THEN h - 1 ELSE n, i |-> -1]
         ELSE [bound |-> FALSE, s |-> 0, i |-> 0]

\* x Start and Increment; bound = FALSE when the names stay unassigned
XStart(dir, h, n) ==
    IF InDirection(RIGHT, dir)
    THEN [bound |-> TRUE, s |-> 0, i |-> 1]
    ELSE IF InDirection(LEFT, dir)
         THEN [bound |-> TRUE, s |-> IF h # 0 THEN h - 1 ELSE n - 1, i |-> -1]
         ELSE [bound |-> FALSE, s |-> 0, i |-> 0]

\* mutant: a direction without vertical symbol falls back to BOTTOM
YStart_Default(dir, v, n) ==
    IF InDirection(TOP, dir)
    THEN [bound |-> TRUE, s |-> IF v # 0 THEN v - 1 ELSE n - 1, i |-> -1]
    ELSE [bound |-> TRUE, s |-> 0, i |-> 1]

\* y Start and Increment
YStart(dir, v, n) ==
    IF InDirection(TOP, dir)
    THEN [bound |-> TRUE, s |-> IF v # 0 THEN v - 1 ELSE n - 1, i |-> -1]
    ELSE IF InDirection(BOTTOM, dir)
         THEN [bound |-> TRUE, s |-> 0, i |-> 1]
         ELSE [bound |-> FALSE, s |-> 0, i |-> 0]

\* mutant: the bound compared without `or None`
AtEdge_NoNone(c, bound) == c = -1 \/ c = bound

\* `c in (-1, bound or None)`
AtEdge(c, bound) == c = -1 \/ (bound # 0 /\ c = bound)

\* mutant: the secondary coordinate wraps as soon as it leaves its bound
Advance_WrapBoth(dir, h, v, xst, yst, x, y) ==
    LET x1 == IF dir[1] \in {RIGHT, LEFT} THEN x + xst.i ELSE x
        y1 == IF dir[1] \in {RIGHT, LEFT} THEN y
              ELSE IF dir[1] \in {TOP, BOTTOM} THEN y + yst.i ELSE y
        ywrap == AtEdge(y1, v)
        y2 == IF ywrap THEN yst.s ELSE y1
        x2 == IF ywrap THEN x1 + xst.i ELSE x1
        xwrap == AtEdge(x2, h)
        x3 == IF xwrap THEN xst.s ELSE x2
        y3 == IF xwrap THEN y2 + yst.i ELSE y2
    IN  <<x3, IF AtEdge(y3, v) THEN yst.s ELSE y3>>

\* the coordinate update at the end of one loop iteration
Advance(dir, h, v, xst, yst, x, y) ==
    LET x1 == IF dir[1] \in {RIGHT, LEFT} THEN x + xst.i ELSE x
        y1 == IF dir[1] \in {RIGHT, LEFT} THEN y
              ELSE IF dir[1] \in {TOP, BOTTOM} THEN y + yst.i ELSE y
        ywrap == AtEdge(y1, v)
        y2 == IF ywrap THEN yst.s ELSE y1
        x2 == IF ywrap THEN x1 + xst.i ELSE x1
        xwrap == AtEdge(x2, h)
        x3 == IF xwrap THEN xst.s ELSE x2
        y3 == IF xwrap THEN y2 + yst.i ELSE y2
    IN  <<x3, y3>>

\* what one loop iteration does with the widget: grid it, or remember its place
Emit(w, rc, x, y, acc) ==
    IF w = rc
    THEN [placed |-> acc.placed, ret |-> <<x, y>>]
    ELSE [placed |-> Append(acc.placed, [w |-> w, x |-> x, y |-> y]), ret |-> acc.ret]

\* mutant: the reserved widget does not take up a cell
RECURSIVE GridLoop_SkipReserved(_, _, _, _, _, _, _, _, _, _)
GridLoop_SkipReserved(dir, h, v, n, rc, xst, yst, w, xy, acc) ==
    IF w > n THEN acc
    ELSE GridLoop_SkipReserved(dir, h, v, n, rc, xst, yst, w + 1,
                  IF w = rc THEN xy ELSE Advance(dir, h, v, xst, yst, xy[1], xy[2]),
                  Emit(w, rc, xy[1], xy[2], acc))

RECURSIVE GridLoop(_, _, _, _, _, _, _, _, _, _)
GridLoop(dir, h, v, n, rc, xst, yst, w, xy, acc) ==
    IF w > n THEN acc
    ELSE GridLoop(dir, h, v, n, rc, xst, yst, w + 1,
                  Advance(dir, h, v, xst, yst, xy[1], xy[2]),
                  Emit(w, rc, xy[1], xy[2], acc))

\* mutant: xr, yr start out as the start coordinate
grid_subwidgets_StartRet(dir, h, v, n, rc) ==
    LET xst == XStart(dir, h, n)
        yst == YStart(dir, v, n)
    IN  IF ~(xst.bound /\ yst.bound)
        THEN [raised |-> TRUE, placed |-> <<>>, ret |-> <<>>]
        ELSE LET r == GridLoop(dir, h, v, n, rc, xst, yst, 1, <<xst.s, yst.s>>,
                               [placed |-> <<>>, ret |-> <<xst.s, yst.s>>])
             IN  [raised |-> FALSE, placed |-> r.placed, ret |-> r.ret]

\* the whole method: raised, the .grid() calls made, and the returned pair
grid_subwidgets(dir, h, v, n, rc) ==
    LET xst == XStart(dir, h, n)
        yst == YStart(dir, v, n)
    IN  IF ~(xst.bound /\ yst.bound)
        THEN [raised |-> TRUE, placed |-> <<>>, ret |-> <<>>]
        ELSE LET r == GridLoop(dir, h, v, n, rc, xst, yst, 1, <<xst.s, yst.s>>,
                               [placed |-> <<>>, ret |-> <<-1, -1>>])
             IN  [raised |-> FALSE, placed |-> r.placed, ret |-> r.ret]

\* ------------------------------------------------------------------------
\* Layout state machine
\* ------------------------------------------------------------------------
\* no Form subclass declared, no thread started
InitFormIdle ==
    /\ formClass = <<>>
    /\ form = <<>>
    /\ content = <<>>
    /\ data = <<>>
    /\ errors = <<>>
    /\ result = "none"
    /\ validated = <<>>
    /\ onsubmitCalls = <<>>
    /\ lastOp = <<>>
    /\ setterCalls = <<>>

InitThreadsIdle ==
    /\ lock = <<>>
    /\ stack = <<>>
    /\ finished = <<>>

InitValidIdle ==
    /\ validator = <<>>
    /\ arg = 0
    /\ outcome = <<>>
    /\ trace = <<>>
    /\ firstCall = <<>>

InitLayout ==
    /\ direction \in Symbols \X Symbols
    /\ horizontal \in 0..MaxBound
    /\ vertical \in 0..MaxBound
    /\ nWidgets \in 0..MaxWidgets
    /\ status = "constructed"
    /\ rcoords = NoWidget
    /\ placed = <<>>
    /\ ret = <<>>
    /\ InitValidIdle
    /\ InitFormIdle
    /\ InitThreadsIdle

\* .grid()/.pack()/.place() of the container: geometry call on the base, then
\* grid_subwidgets(rcoords)
wrapper(rc) ==
    LET r == grid_subwidgets(direction, horizontal, vertical, nWidgets, rc)
    IN  /\ rcoords' = rc
        /\ status' = IF r.raised THEN "ValueError" ELSE "returned"
        /\ placed' = r.placed
        /\ ret' = r.ret
        /\ UNCHANGED <<direction, horizontal, vertical, nWidgets>>
        /\ UNCHANGED validVars
        /\ UNCHANGED <<formVars, threadVars>>

NextLayout == \E rc \in (0..nWidgets) \cup {Outsider} : wrapper(rc)

SpecLayout == InitLayout /\ [][NextLayout]_vars

\* ------------------------------------------------------------------------
\* Helpers for the layout properties
\* ------------------------------------------------------------------------
ValidDirection(dir) ==
    \/ dir[1] \in {RIGHT, LEFT} /\ dir[2] \in {TOP, BOTTOM}
    \/ dir[1] \in {TOP, BOTTOM} /\ dir[2] \in {RIGHT, LEFT}

\* coordinate emitted for widget w in the last call, <<>> if none
PlacedAt(pl, w) ==
    IF \E k \in 1..Len(pl) : pl[k].w = w
    THEN LET k == CHOOSE k \in 1..Len(pl) : pl[k].w = w IN <<pl[k].x, pl[k].y>>
    ELSE <<>>

\* coordinate the last call assigned to widget w: gridded, or returned when
\* w is the rcoords widget
CoordOf(w) == IF w = rcoords THEN ret ELSE PlacedAt(placed, w)

\* the same for a result of grid_subwidgets
CoordIn(r, rc, w) == IF w = rc THEN r.ret ELSE PlacedAt(r.placed, w)

Children == 1..nWidgets

PrimaryHorizontal(dir) == dir[1] \in {RIGHT, LEFT}

\* C1: for direction (RIGHT, BOTTOM), horizontal bound H >= 1 and vertical
\* unbounded, the i-th widget (0-based) is placed at column i mod H and
\* row i div H, for every widget count.
C1_RowMajor ==
    (/\ status = "returned"
     /\ direction = <<RIGHT, BOTTOM>>
     /\ horizontal >= 1
     /\ vertical = 0)
    => \A w \in Children :
         CoordOf(w) = <<(w - 1) % horizontal, (w - 1) \div horizontal>>

C1_Witness ==
    /\ status = "returned"
    /\ direction = <<RIGHT, BOTTOM>>
    /\ horizontal = 2
    /\ vertical = 0
    /\ rcoords = NoWidget
    /\ nWidgets = 4
    /\ PlacedAt(placed, 4) = <<1, 1>>

\* C2 (as claimed): for every valid direction with both bounds 0, the N
\* placements are pairwise distinct, the primary-axis coordinates are exactly
\* 0..N-1 and every secondary-axis coordinate is 0.
C2_UnboundedLine ==
    (/\ status = "returned"
     /\ ValidDirection(direction)
     /\ horizontal = 0
     /\ vertical = 0)
    => LET prim(w) == IF PrimaryHorizontal(direction) THEN CoordOf(w)[1] ELSE CoordOf(w)[2]
           sec(w) == IF PrimaryHorizontal(direction) THEN CoordOf(w)[2] ELSE CoordOf(w)[1]
       IN  /\ \A w1, w2 \in Children : w1 # w2 => CoordOf(w1) # CoordOf(w2)
           /\ {prim(w) : w \in Children} = 0..(nWidgets - 1)
           /\ \A w \in Children : sec(w) = 0

\* C3: a direction pair that is not one horizontal plus one vertical symbol
\* makes the call raise ValueError with no child gridded and nothing returned.
C3_InvalidDirectionRaises ==
    (status # "constructed" /\ ~ValidDirection(direction))
    => /\ status = "ValueError"
       /\ placed = <<>>
       /\ ret = <<>>

C3_Witness ==
    /\ status = "ValueError"
    /\ direction = <<RIGHT, LEFT>>
    /\ nWidgets = 2

\* C4: with child r as rcoords the call grids exactly the other N-1 children,
\* each where a call without rcoords grids it, and returns the coordinate a
\* call without rcoords grids r at.
C4_ReserveMatchesPlainRun ==
    (status = "returned" /\ rcoords \in Children)
    => LET plain == grid_subwidgets(direction, horizontal, vertical, nWidgets, NoWidget)
       IN  /\ Len(placed) = nWidgets - 1
           /\ {placed[k].w : k \in 1..Len(placed)} = Children \ {rcoords}
           /\ \A w \in Children \ {rcoords} :
                PlacedAt(placed, w) = PlacedAt(plain.placed, w)
           /\ ret = PlacedAt(plain.placed, rcoords)

C4_Witness ==
    /\ status = "returned"
    /\ nWidgets = 3
    /\ rcoords = 2
    /\ Len(placed) = 2
    /\ ret = <<1, 0>>

\* C5: for direction (LEFT, TOP) every widget's coordinate is the mirror image
\* of its (RIGHT, BOTTOM) coordinate with the same bounds: x = xs - x_RB and
\* y = ys - y_RB, xs and ys being bound-1 on a bounded axis and N-1 otherwise.
C5_LeftTopMirrors ==
    (status = "returned" /\ direction = <<LEFT, TOP>>)
    => LET rb == grid_subwidgets(<<RIGHT, BOTTOM>>, horizontal, vertical, nWidgets, rcoords)
           xs == IF horizontal # 0 THEN horizontal - 1 ELSE nWidgets - 1
           ys == IF vertical # 0 THEN vertical - 1 ELSE nWidgets - 1
       IN  \A w \in Children :
             CoordOf(w) = <<xs - CoordIn(rb, rcoords, w)[1], ys - CoordIn(rb, rcoords, w)[2]>>

C5_Witness ==
    /\ status = "returned"
    /\ direction = <<LEFT, TOP>>
    /\ horizontal = 2
    /\ vertical = 0
    /\ nWidgets = 4
    /\ rcoords = NoWidget
    /\ PlacedAt(placed, 1) = <<1, 3>>
    /\ PlacedAt(placed, 4) = <<0, 2>>

\* the other symbol of the same axis
Opposite(sym) ==
    IF sym = RIGHT THEN LEFT
    ELSE IF sym = LEFT THEN RIGHT
    ELSE IF sym = TOP THEN BOTTOM
    ELSE IF sym = BOTTOM THEN TOP
    ELSE sym

\* C6 (as claimed): when the bound of the primary axis is 0, the second
\* element of direction is ignored: the other valid second element gives every
\* widget the same coordinate.
C6_SecondElementIgnored ==
    (/\ status = "returned"
     /\ ValidDirection(direction)
     /\ (IF PrimaryHorizontal(direction) THEN horizontal ELSE vertical) = 0)
    => LET other == grid_subwidgets(<<direction[1], Opposite(direction[2])>>,
                                    horizontal, vertical, nWidgets, rcoords)
       IN  \A w \in Children : CoordOf(w) = CoordIn(other, rcoords, w)

\* C7 (as claimed): on an empty widget sequence with rcoords given, nothing is
\* gridded and the returned coordinate is the start coordinate (xs, ys).
C7_EmptyReturnsStart ==
    (status = "returned" /\ nWidgets = 0 /\ rcoords # NoWidget)
    => /\ placed = <<>>
       /\ ret = <<XStart(direction, horizontal, nWidgets).s,
                  YStart(direction, vertical, nWidgets).s>>

\* C7 (amended): on an empty widget sequence with rcoords given and a valid
\* direction, nothing is gridded and the returned coordinate is (-1, -1).
C7_EmptyReturnsSentinel ==
    (status # "constructed" /\ nWidgets = 0 /\ rcoords # NoWidget /\ ValidDirection(direction))
    => /\ status = "returned"
       /\ placed = <<>>
       /\ ret = <<-1, -1>>

C7_Witness ==
    /\ status = "returned"
    /\ nWidgets = 0
    /\ rcoords = Outsider
    /\ direction = <<RIGHT, BOTTOM>>
    /\ ret = <<-1, -1>>

\* the coordinate lies in the grid the bounds describe
InBounds(c) ==
    /\ c[1] >= 0
    /\ c[2] >= 0
    /\ horizontal # 0 => c[1] < horizontal
    /\ vertical # 0 => c[2] < vertical

\* both bounds are set and the widgets outnumber the cells
Overflows ==
    /\ ValidDirection(direction)
    /\ horizontal >= 1
    /\ vertical >= 1
    /\ nWidgets > horizontal * vertical

\* C22 (as claimed): when both bounds are set and the widgets outnumber
\* H*V, the call raises no error and at least two widgets get the same
\* coordinate.
C22_OverflowReusesCoordinate ==
    (status # "constructed" /\ Overflows)
    => /\ status = "returned"
       /\ \E w1, w2 \in Children : w1 # w2 /\ CoordOf(w1) = CoordOf(w2)

\* C22 (amended): when both bounds are set and the widgets outnumber H*V,
\* the call raises no error and gives every widget a coordinate; widget
\* H*V+1 gets a coordinate outside the bounds or one already used, and with
\* a horizontal primary direction it is outside the bounds, the first H*V+1
\* coordinates being pairwise distinct.
C22_OverflowLeavesGridOrReuses ==
    (status # "constructed" /\ Overflows)
    => /\ status = "returned"
       /\ \A w \in Children : Len(CoordOf(w)) = 2
       /\ LET over == horizontal * vertical + 1
          IN  /\ \/ ~ InBounds(CoordOf(over))
                 \/ \E w \in 1..(over - 1) : CoordOf(w) = CoordOf(over)
              /\ PrimaryHorizontal(direction) =>
                    /\ ~ InBounds(CoordOf(over))
                    /\ \A w1, w2 \in 1..over : w1 # w2 => CoordOf(w1) # CoordOf(w2)

\* three widgets in a 2 x 1 grid: the third goes below the grid, unshared
C22_Witness ==
    /\ status = "returned"
    /\ direction = <<RIGHT, BOTTOM>>
    /\ horizontal = 2
    /\ vertical = 1
    /\ nWidgets = 3
    /\ rcoords = NoWidget
    /\ PlacedAt(placed, 3) = <<0, 1>>

\* the bounds leave room for all widgets
Accommodates ==
    LET primary == IF PrimaryHorizontal(direction) THEN horizontal ELSE vertical
        secondary == IF PrimaryHorizontal(direction) THEN vertical ELSE horizontal
    IN  \/ primary = 0
        \/ secondary = 0 /\ primary >= 1
        \/ primary >= 1 /\ secondary >= 1 /\ nWidgets <= horizontal * vertical

\* C23: when the bounds leave room for all widgets, then for every valid
\* direction the N coordinates are pairwise distinct, non-negative, and
\* below the bound on every bounded axis.
C23_PlacementsDistinctInBounds ==
    (status = "returned" /\ ValidDirection(direction) /\ Accommodates)
    => /\ \A w1, w2 \in Children : w1 # w2 => CoordOf(w1) # CoordOf(w2)
       /\ \A w \in Children : Len(CoordOf(w)) = 2 /\ InBounds(CoordOf(w))

\* a full 2 x 2 grid walked upwards, then leftwards
C23_Witness ==
    /\ status = "returned"
    /\ direction = <<TOP, LEFT>>
    /\ horizontal = 2
    /\ vertical = 2
    /\ nWidgets = 4
    /\ rcoords = 2
    /\ PlacedAt(placed, 1) = <<1, 1>>
    /\ ret = <<1, 0>>
    /\ PlacedAt(placed, 4) = <<0, 0>>

\* ------------------------------------------------------------------------
\* misc.validation: values, exceptions, callables
\* ------------------------------------------------------------------------
MaxInput == 6
MaxTrans == 2
MaxConds == 2
MaxSubs == 2

\* Python values that travel through a validator: ints and message strings
PyInt(n) == [t |-> "int", n |-> n, s |-> <<>>]
PyStr(parts) == [t |-> "str", n |-> 0, s |-> parts]

\* exception classes and their base class
BaseOf(e) ==
    IF e = "UnicodeError" THEN "ValueError"
    ELSE IF e = "KeyError" THEN "LookupError"
    ELSE IF e \in {"ValueError", "TypeError", "LookupError"} THEN "Exception"
    ELSE "BaseException"

RECURSIVE Mro(_)
Mro(e) == IF e = "BaseException" THEN {e} ELSE {e} \cup Mro(BaseOf(e))

\* mutant: the exception class is compared for equality
IsInstance_Exact(e, exc) == \E k \in 1..Len(exc) : exc[k] = e

\* isinstance(e, exc) for exc a class (1-tuple here) or a tuple of classes
IsInstance(e, exc) == \E k \in 1..Len(exc) : exc[k] \in Mro(e)

\* result of calling something: a returned (good, value) pair or a raised exception
Return(good, value) == [kind |-> "return", good |-> good, value |-> value, exc |-> ""]
Raise(e) == [kind |-> "raise", good |-> FALSE, value |-> PyInt(0), exc |-> e]
NoOutcome == [kind |-> "none", good |-> FALSE, value |-> PyInt(0), exc |-> ""]

\* the callables handed to TransformValidator, by __name__
Functions == {"double", "half", "item", "decode", "typed"}

\* trans(value): the returned value, or the exception raised
Apply(f, value) ==
    IF f = "double" THEN Return(TRUE, PyInt(2 * value.n))
    ELSE IF f = "half"
         THEN IF value.n % 2 = 1 THEN Raise("ValueError")
              ELSE Return(TRUE, PyInt(value.n \div 2))
    ELSE IF f = "item"
         THEN IF value.n > 2 THEN Raise("KeyError")
              ELSE Return(TRUE, PyInt(value.n + 1))
    ELSE IF f = "typed"
         THEN IF value.n = 1 THEN Raise("TypeError")
              ELSE Return(TRUE, value)
    ELSE IF value.n = 0 THEN Raise("UnicodeError")
         ELSE Return(TRUE, value)

\* str.format with the __name__ and value keywords
Format(msg, name, value) ==
    [k \in 1..Len(msg) |->
        IF msg[k] = "{__name__}" THEN name
        ELSE IF msg[k] = "{value}" THEN ToString(value.n)
        ELSE msg[k]]

\* delayed conditions built with misc.Instance, and Instance.lookup
Conditions == {
    [op |-> "lt", k |-> 10, msg |-> <<"too big">>],
    [op |-> "gt", k |-> 0, msg |-> <<"not positive">>],
    [op |-> "ne", k |-> 0, msg |-> <<"zero">>] }

Lookup(cond, value) ==
    IF cond.op = "lt" THEN value.n < cond.k
    ELSE IF cond.op = "gt" THEN value.n > cond.k
    ELSE value.n # cond.k

\* one entry of a validator's call log
Event(lvl, sub, idx, a, out) == [lvl |-> lvl, sub |-> sub, idx |-> idx, arg |-> a, out |-> out]

\* ------------------------------------------------------------------------
\* TransformValidator
\* ------------------------------------------------------------------------
\* mutant: the default covers ValueError only
default_config_ValueOnly == << [exc |-> <<"ValueError">>, msg |-> <<"Must be of type ", "{__name__}">>] >>

default_config == << [exc |-> <<"ValueError", "TypeError">>, msg |-> <<"Must be of type ", "{__name__}">>] >>

HasKey(cnf, key) == \E k \in 1..Len(cnf) : cnf[k].exc = key

\* dict.__setitem__: an existing key keeps its place, a new key goes last
DictSet(cnf, entry) ==
    IF HasKey(cnf, entry.exc)
    THEN [k \in 1..Len(cnf) |-> IF cnf[k].exc = entry.exc THEN entry ELSE cnf[k]]
    ELSE Append(cnf, entry)

RECURSIVE DictUpdate(_, _)
DictUpdate(cnf, new) ==
    IF new = <<>> THEN cnf
    ELSE DictUpdate(DictSet(cnf, Head(new)), Tail(new))

\* TransformValidator.__init__: transformations are callables or (callable, config)
TransformValidator(transformations) ==
    [kind |-> "trans",
     validators |-> <<>>,
     conditions |-> <<>>,
     trans |-> [k \in 1..Len(transformations) |-> transformations[k].f],
     configs |-> [k \in 1..Len(transformations) |->
                    IF transformations[k].tuple
                    THEN DictUpdate(default_config, transformations[k].cnf)
                    ELSE default_config]]

\* mutant: the last entry catches whatever no entry matched
RECURSIVE MatchException_CatchAll(_, _, _)
MatchException_CatchAll(cnf, k, e) ==
    IF k > Len(cnf) THEN Len(cnf)
    ELSE IF IsInstance(e, cnf[k].exc) THEN k
    ELSE MatchException_CatchAll(cnf, k + 1, e)

\* the walk over cnf.items() after trans raised e
RECURSIVE MatchException(_, _, _)
MatchException(cnf, k, e) ==
    IF k > Len(cnf) THEN 0
    ELSE IF IsInstance(e, cnf[k].exc) THEN k
    ELSE MatchException(cnf, k + 1, e)

\* mutant: every transformation is applied to the validator's argument
RECURSIVE TransLoop_Original(_, _, _, _, _)
TransLoop_Original(v, j, value, sub, log) ==
    IF j > Len(v.trans) THEN [out |-> Return(TRUE, value), trace |-> log]
    ELSE LET orig == IF j = 1 \/ log = <<>> THEN value ELSE log[1].arg
             r == Apply(v.trans[j], orig)
             log1 == Append(log, Event("trans", sub, j, orig, r))
         IN  IF r.kind = "return"
             THEN TransLoop_Original(v, j + 1, r.value, sub, log1)
             ELSE LET m == MatchException(v.configs[j], 1, r.exc)
                  IN  IF m # 0
                      THEN [out |-> Return(FALSE, PyStr(Format(v.configs[j][m].msg, v.trans[j], value))),
                            trace |-> log1]
                      ELSE [out |-> Raise(r.exc), trace |-> log1]

\* TransformValidator.__call__
RECURSIVE TransLoop(_, _, _, _, _)
TransLoop(v, j, value, sub, log) ==
    IF j > Len(v.trans) THEN [out |-> Return(TRUE, value), trace |-> log]
    ELSE LET r == Apply(v.trans[j], value)
             log1 == Append(log, Event("trans", sub, j, value, r))
         IN  IF r.kind = "return"
             THEN TransLoop(v, j + 1, r.value, sub, log1)
             ELSE LET m == MatchException(v.configs[j], 1, r.exc)
                  IN  IF m # 0
                      THEN [out |-> Return(FALSE, PyStr(Format(v.configs[j][m].msg, v.trans[j], value))),
                            trace |-> log1]
                      ELSE [out |-> Raise(r.exc), trace |-> log1]

\* ------------------------------------------------------------------------
\* ConditionValidator
\* ------------------------------------------------------------------------
ConditionValidator(conditions) ==
    [kind |-> "cond",
     validators |-> <<>>,
     conditions |-> conditions,
     trans |-> <<>>,
     configs |-> <<>>]

\* mutant: all conditions are evaluated, the last failing one gives the message
RECURSIVE CondLoop_NoStop(_, _, _, _, _)
CondLoop_NoStop(v, j, value, sub, log) ==
    IF j > Len(v.conditions)
    THEN LET bad == {k \in 1..Len(log) : ~log[k].out.good}
         IN  [out |-> IF bad = {} THEN Return(TRUE, value)
                      ELSE Return(FALSE, PyStr(v.conditions[log[CHOOSE k \in bad : \A l \in bad : l <= k].idx].msg)),
              trace |-> log]
    ELSE LET holds == Lookup(v.conditions[j], value)
             log1 == Append(log, Event("cond", sub, j, value, Return(holds, value)))
         IN  CondLoop_NoStop(v, j + 1, value, sub, log1)

\* ConditionValidator.__call__
RECURSIVE CondLoop(_, _, _, _, _)
CondLoop(v, j, value, sub, log) ==
    IF j > Len(v.conditions) THEN [out |-> Return(TRUE, value), trace |-> log]
    ELSE LET holds == Lookup(v.conditions[j], value)
             log1 == Append(log, Event("cond", sub, j, value, Return(holds, value)))
         IN  IF ~holds
             THEN [out |-> Return(FALSE, PyStr(v.conditions[j].msg)), trace |-> log1]
             ELSE CondLoop(v, j + 1, value, sub, log1)

\* ------------------------------------------------------------------------
\* MultiValidator
\* ------------------------------------------------------------------------
MultiValidator(validators) ==
    [kind |-> "multi",
     validators |-> validators,
     conditions |-> <<>>,
     trans |-> <<>>,
     configs |-> <<>>]

\* validator(value) for a validator that is not a MultiValidator
CallSingle(v, value, sub) ==
    IF v.kind = "cond" THEN CondLoop(v, 1, value, sub, <<>>)
    ELSE TransLoop(v, 1, value, sub, <<>>)

\* mutant: a failing validator does not end the chain
RECURSIVE MultiLoop_NoStop(_, _, _, _)
MultiLoop_NoStop(v, j, value, log) ==
    IF j > Len(v.validators) THEN [out |-> Return(TRUE, value), trace |-> log]
    ELSE LET r == CallSingle(v.validators[j], value, j)
             log1 == Append(log, Event("validator", j, 0, value, r.out)) \o r.trace
         IN  IF r.out.kind = "raise" THEN [out |-> r.out, trace |-> log1]
             ELSE MultiLoop_NoStop(v, j + 1, r.out.value, log1)

\* mutant: every validator of the chain sees the chain's argument
RECURSIVE MultiLoop_Original(_, _, _, _)
MultiLoop_Original(v, j, value, log) ==
    IF j > Len(v.validators) THEN [out |-> Return(TRUE, value), trace |-> log]
    ELSE LET orig == IF log = <<>> THEN value ELSE log[1].arg
             r == CallSingle(v.validators[j], orig, j)
             log1 == Append(log, Event("validator", j, 0, orig, r.out)) \o r.trace
         IN  IF r.out.kind = "raise" THEN [out |-> r.out, trace |-> log1]
             ELSE IF ~r.out.good THEN [out |-> Return(FALSE, r.out.value), trace |-> log1]
             ELSE MultiLoop_Original(v, j + 1, r.out.value, log1)

\* MultiValidator.__call__
RECURSIVE MultiLoop(_, _, _, _)
MultiLoop(v, j, value, log) ==
    IF j > Len(v.validators) THEN [out |-> Return(TRUE, value), trace |-> log]
    ELSE LET r == CallSingle(v.validators[j], value, j)
             log1 == Append(log, Event("validator", j, 0, value, r.out)) \o r.trace
         IN  IF r.out.kind = "raise" THEN [out |-> r.out, trace |-> log1]
             ELSE IF ~r.out.good THEN [out |-> Return(FALSE, r.out.value), trace |-> log1]
             ELSE MultiLoop(v, j + 1, r.out.value, log1)

\* validator(value) for any of the three classes
CallValidator(v, value) ==
    IF v.kind = "multi" THEN MultiLoop(v, 1, value, <<>>)
    ELSE CallSingle(v, value, 0)

\* ------------------------------------------------------------------------
\* Validation state machine
\* ------------------------------------------------------------------------
SeqsUpTo(S, n) == UNION {[1..k -> S] : k \in 0..n}

Plain(f) == [f |-> f, tuple |-> FALSE, cnf |-> <<>>]
WithConfig(f, cnf) == [f |-> f, tuple |-> TRUE, cnf |-> cnf]

\* the transformations a TransformValidator is built from
Transformations ==
    {Plain(f) : f \in Functions} \cup
    { WithConfig("half", << [exc |-> <<"ValueError">>, msg |-> <<"odd: ", "{value}">>] >>),
      WithConfig("item", << [exc |-> <<"LookupError">>, msg |-> <<"{__name__}", " has no ", "{value}">>] >>) }

TransformValidators == {TransformValidator(ts) : ts \in SeqsUpTo(Transformations, MaxTrans)}
ConditionValidators == {ConditionValidator(cs) : cs \in SeqsUpTo(Conditions, MaxConds)}

\* the validators a MultiValidator chains
SingleValidators ==
    {TransformValidator(<<t>>) : t \in Transformations} \cup
    {ConditionValidator(<<c>>) : c \in Conditions} \cup
    { TransformValidator(<<Plain("double"), Plain("half")>>),
      ConditionValidator(<< [op |-> "lt", k |-> 10, msg |-> <<"too big">>],
                            [op |-> "gt", k |-> 0, msg |-> <<"not positive">>] >>) }

MultiValidators == {MultiValidator(vs) : vs \in SeqsUpTo(SingleValidators, MaxSubs)}

Validators == TransformValidators \cup ConditionValidators \cup MultiValidators

InitLayoutIdle ==
    /\ direction = <<RIGHT, BOTTOM>>
    /\ horizontal = 0
    /\ vertical = 0
    /\ nWidgets = 0
    /\ status = "constructed"
    /\ rcoords = NoWidget
    /\ placed = <<>>
    /\ ret = <<>>

\* the first call made on the validator, and whether a call with another
\* argument has been made since
NoCall == [called |-> FALSE, arg |-> PyInt(0), outcome |-> NoOutcome, others |-> FALSE]

Remember(a, out) ==
    IF ~firstCall.called
    THEN [called |-> TRUE, arg |-> a, outcome |-> out, others |-> FALSE]
    ELSE [firstCall EXCEPT !.others = @ \/ a # firstCall.arg]

InitValidation ==
    /\ validator \in Validators
    /\ arg = PyInt(0)
    /\ outcome = NoOutcome
    /\ trace = <<>>
    /\ firstCall = NoCall
    /\ InitLayoutIdle
    /\ InitFormIdle
    /\ InitThreadsIdle

\* mutant: the call uses up the validator's steps, as an iterator kept from
\* __init__ would
Call_Consuming(n) ==
    LET r == CallValidator(validator, PyInt(n))
    IN  /\ arg' = PyInt(n)
        /\ outcome' = r.out
        /\ trace' = r.trace
        /\ firstCall' = Remember(PyInt(n), r.out)
        /\ validator' = [validator EXCEPT !.validators = <<>>, !.conditions = <<>>,
                                          !.trans = <<>>, !.configs = <<>>]
        /\ UNCHANGED layoutVars
        /\ UNCHANGED <<formVars, threadVars>>

\* validator(value)
Call(n) ==
    LET r == CallValidator(validator, PyInt(n))
    IN  /\ arg' = PyInt(n)
        /\ outcome' = r.out
        /\ trace' = r.trace
        /\ firstCall' = Remember(PyInt(n), r.out)
        /\ UNCHANGED validator
        /\ UNCHANGED layoutVars
        /\ UNCHANGED <<formVars, threadVars>>

NextValidation == \E n \in 0..MaxInput : Call(n)

SpecValidation == InitValidation /\ [][NextValidation]_vars

\* ------------------------------------------------------------------------
\* Helpers for the validation properties
\* ------------------------------------------------------------------------
IsValidatorEvent(e) == e.lvl = "validator"
ValidatorEvents == SelectSeq(trace, IsValidatorEvent)
TransEvents(sub) == SelectSeq(trace, LAMBDA e : e.lvl = "trans" /\ e.sub = sub)
CondEvents(sub) == SelectSeq(trace, LAMBDA e : e.lvl = "cond" /\ e.sub = sub)

Good(out) == out.kind = "return" /\ out.good

\* the logged steps are steps 1..k in order, each one fed the value the one
\* before it returned, the first one fed `first`
Threaded(evs, first) ==
    \A k \in 1..Len(evs) :
        /\ evs[k].arg = IF k = 1 THEN first ELSE evs[k - 1].out.value
        /\ k > 1 => Good(evs[k - 1].out)

\* the transformations of v ran on `first` as steps 1..k, each at most once,
\* in the given order, each on the previous one's return value
TransThreaded(v, sub, first) ==
    LET evs == TransEvents(sub)
    IN  /\ Len(evs) <= Len(v.trans)
        /\ \A k \in 1..Len(evs) : evs[k].idx = k /\ evs[k].out = Apply(v.trans[k], evs[k].arg)
        /\ Threaded(evs, first)

ExampleChain ==
    MultiValidator(<< TransformValidator(<<Plain("double")>>),
                      ConditionValidator(<< [op |-> "lt", k |-> 10, msg |-> <<"too big">>] >>) >>)

\* C8: each step of a chain sees the value the preceding successful step
\* produced: the chain [double, require(x < 10, 'too big')] maps 3 to (True, 6)
\* and 6 to (False, 'too big'); the sub-validators of a MultiValidator and the
\* transformations of a TransformValidator run in the given order, each at
\* most once, each on the previous one's return value.
C8_ChainThreadsValue ==
    (outcome.kind # "none") =>
        /\ (validator = ExampleChain /\ arg = PyInt(3)) => outcome = Return(TRUE, PyInt(6))
        /\ (validator = ExampleChain /\ arg = PyInt(6)) => outcome = Return(FALSE, PyStr(<<"too big">>))
        /\ validator.kind = "multi" =>
             LET evs == ValidatorEvents
             IN  /\ Len(evs) <= Len(validator.validators)
                 /\ \A k \in 1..Len(evs) :
                      /\ evs[k].sub = k
                      /\ evs[k].out = CallSingle(validator.validators[k], evs[k].arg, k).out
                      /\ validator.validators[k].kind = "trans"
                           => TransThreaded(validator.validators[k], k, evs[k].arg)
                 /\ Threaded(evs, arg)
                 /\ (Good(outcome) /\ evs # <<>>) => outcome.value = evs[Len(evs)].out.value
        /\ validator.kind = "trans" =>
             /\ TransThreaded(validator, 0, arg)
             /\ (Good(outcome) /\ validator.trans # <<>>) =>
                  /\ Len(TransEvents(0)) = Len(validator.trans)
                  /\ outcome.value = TransEvents(0)[Len(validator.trans)].out.value

C8_Witness ==
    /\ validator = ExampleChain
    /\ arg = PyInt(3)
    /\ outcome = Return(TRUE, PyInt(6))
    /\ Len(trace) = 4

\* C9: MultiValidator stops at the first failing sub-validator: it returns
\* (False, that sub-validator's message) and invokes no later sub-validator;
\* if none fails it returns (True, v), v being what the last sub-validator
\* returned, or the input for an empty chain.
C9_MultiStopsAtFirstFailure ==
    (validator.kind = "multi" /\ outcome.kind = "return") =>
        LET evs == ValidatorEvents
            k == Len(evs)
            n == Len(validator.validators)
        IN  /\ \A j \in 1..k :
                 /\ evs[j].sub = j
                 /\ j <= n
                 /\ evs[j].out = CallSingle(validator.validators[j], evs[j].arg, j).out
            /\ \A j \in 1..(k - 1) : Good(evs[j].out)
            /\ \A e \in 1..Len(trace) : trace[e].sub \in 1..k
            /\ ~outcome.good =>
                 /\ k >= 1
                 /\ evs[k].out.kind = "return"
                 /\ ~evs[k].out.good
                 /\ outcome.value = evs[k].out.value
                 /\ outcome.value.t = "str"
            /\ outcome.good =>
                 /\ k = n
                 /\ \A j \in 1..k : Good(evs[j].out)
                 /\ outcome.value = IF n = 0 THEN arg ELSE evs[n].out.value

C9_Witness ==
    /\ validator.kind = "multi"
    /\ Len(validator.validators) = 2
    /\ outcome.kind = "return"
    /\ ~outcome.good
    /\ Len(ValidatorEvents) = 1
    /\ \A e \in 1..Len(trace) : trace[e].sub = 1

\* index of the first condition of v that value does not satisfy, 0 if none
FirstFalsy(v, value) ==
    LET bad == {j \in 1..Len(v.conditions) : ~Lookup(v.conditions[j], value)}
    IN  IF bad = {} THEN 0 ELSE CHOOSE j \in bad : \A l \in bad : j <= l

\* a ConditionValidator v called with `a`, returning `out`, logged `evs`
CondContract(v, a, out, evs) ==
    LET f == FirstFalsy(v, a)
    IN  /\ \A j \in 1..Len(evs) : evs[j].idx = j /\ evs[j].arg = a
        /\ IF f # 0
           THEN /\ Len(evs) = f
                /\ out = Return(FALSE, PyStr(v.conditions[f].msg))
           ELSE /\ Len(evs) = Len(v.conditions)
                /\ out = Return(TRUE, a)

\* C10: ConditionValidator evaluates its conditions in order against the
\* input value; at the first falsy one it returns (False, that condition's
\* message) and evaluates no later condition; if all hold it returns
\* (True, value) with the value unchanged.
C10_ConditionFirstFalsy ==
    /\ (outcome.kind # "none" /\ validator.kind = "cond")
         => CondContract(validator, arg, outcome, CondEvents(0))
    /\ (outcome.kind # "none" /\ validator.kind = "multi")
         => \A k \in 1..Len(ValidatorEvents) :
              validator.validators[k].kind = "cond"
                => CondContract(validator.validators[k], ValidatorEvents[k].arg,
                                ValidatorEvents[k].out, CondEvents(k))

C10_Witness ==
    /\ validator.kind = "cond"
    /\ Len(validator.conditions) = 2
    /\ outcome.kind = "return"
    /\ ~outcome.good
    /\ outcome.value = PyStr(validator.conditions[1].msg)
    /\ validator.conditions[1] # validator.conditions[2]
    /\ ~Lookup(validator.conditions[2], arg)
    /\ Len(trace) = 1

\* ------------------------------------------------------------------------
\* Exception mapping of TransformValidator
\* ------------------------------------------------------------------------
\* the entries of cnf whose class, or one class of whose tuple, is the class of
\* e or one of its bases
Matching(cnf, e) == {k \in 1..Len(cnf) : \E c \in 1..Len(cnf[k].exc) : cnf[k].exc[c] \in Mro(e)}

Least(S) == CHOOSE k \in S : \A l \in S : k <= l

\* the steps of a TransformValidator ended with step Len(evs) raising
EndsRaising(evs) == evs # <<>> /\ evs[Len(evs)].out.kind = "raise"

\* a TransformValidator v that logged evs and gave out: a raise of a mapped
\* class, or of a subclass of one, became (False, formatted message)
MappedContract(v, out, evs) ==
    EndsRaising(evs) =>
        LET j == Len(evs)
            e == evs[j].out.exc
            hits == Matching(v.configs[j], e)
        IN  hits # {} =>
              /\ evs[j].idx = j
              /\ out.kind = "return"
              /\ ~out.good
              /\ \E k \in hits :
                   out.value = PyStr(Format(v.configs[j][k].msg, v.trans[j], evs[j].arg))
              /\ \A p \in 1..Len(out.value.s) : out.value.s[p] \notin {"{__name__}", "{value}"}

\* C11: when a transformation raises an exception of a mapped class or of a
\* subclass of a mapped class (also inside a tuple key), TransformValidator
\* returns (False, m), m being the matching template formatted with the
\* transformation's __name__ and the offending value, and applies no later
\* transformation.
C11_MappedExceptionGivesMessage ==
    /\ (outcome.kind # "none" /\ validator.kind = "trans")
         => MappedContract(validator, outcome, TransEvents(0))
    /\ (outcome.kind # "none" /\ validator.kind = "multi")
         => \A k \in 1..Len(ValidatorEvents) :
              validator.validators[k].kind = "trans"
                => MappedContract(validator.validators[k], ValidatorEvents[k].out, TransEvents(k))

C11_Witness ==
    /\ validator.kind = "trans"
    /\ validator.trans = <<"decode", "double">>
    /\ arg = PyInt(0)
    /\ Len(trace) = 1
    /\ trace[1].out = Raise("UnicodeError")
    /\ outcome = Return(FALSE, PyStr(<<"Must be of type ", "decode">>))

\* the transformations the TransformValidator in `validator` was built from
GivenTransformations ==
    CHOOSE ts \in SeqsUpTo(Transformations, MaxTrans) : TransformValidator(ts) = validator

\* C12 (as claimed): when a transformation raises, the entries of the
\* exception map the caller supplied for it are walked in insertion order and
\* the first caller entry that matches supplies the returned message.
C12_CallerEntryDecides ==
    (outcome.kind # "none" /\ validator.kind = "trans" /\ EndsRaising(trace)) =>
        LET j == Len(trace)
            given == GivenTransformations[j]
            hits == Matching(given.cnf, trace[j].out.exc)
        IN  (given.tuple /\ hits # {}) =>
              outcome = Return(FALSE, PyStr(Format(given.cnf[Least(hits)].msg, given.f, trace[j].arg)))

\* a TransformValidator v that logged evs and gave out: a raise no entry
\* matches leaves the call as the same exception
UnmappedContract(v, out, evs) ==
    EndsRaising(evs) =>
        LET j == Len(evs)
            e == evs[j].out.exc
        IN  Matching(v.configs[j], e) = {} => out = Raise(e)

\* C13: an exception that matches no entry of the step's exception map
\* propagates unchanged to the caller of the validator, also through a
\* MultiValidator; no (ok, message) pair is returned.
C13_UnmappedExceptionPropagates ==
    /\ (outcome.kind # "none" /\ validator.kind = "trans")
         => UnmappedContract(validator, outcome, TransEvents(0))
    /\ (outcome.kind # "none" /\ validator.kind = "multi")
         => \A k \in 1..Len(ValidatorEvents) :
              validator.validators[k].kind = "trans"
                => /\ UnmappedContract(validator.validators[k], ValidatorEvents[k].out, TransEvents(k))
                   /\ ValidatorEvents[k].out.kind = "raise"
                        => /\ outcome = ValidatorEvents[k].out
                           /\ k = Len(ValidatorEvents)

C13_Witness ==
    /\ validator.kind = "multi"
    /\ Len(validator.validators) = 2
    /\ validator.validators[1] = TransformValidator(<<Plain("item")>>)
    /\ arg = PyInt(3)
    /\ outcome = Raise("KeyError")
    /\ Len(ValidatorEvents) = 1

\* C14: for a transformation given without an exception map, a raised
\* ValueError or TypeError yields (False, 'Must be of type <name>') with the
\* transformation's __name__, and any other exception propagates.
C14_DefaultMapping ==
    (outcome.kind # "none" /\ validator.kind = "trans" /\ EndsRaising(trace)) =>
        LET j == Len(trace)
            given == GivenTransformations[j]
            e == trace[j].out.exc
        IN  ~given.tuple =>
              IF "ValueError" \in Mro(e) \/ "TypeError" \in Mro(e)
              THEN outcome = Return(FALSE, PyStr(<<"Must be of type ", given.f>>))
              ELSE outcome = Raise(e)

C14_Witness ==
    /\ validator = TransformValidator(<<Plain("typed")>>)
    /\ arg = PyInt(1)
    /\ trace[1].out = Raise("TypeError")
    /\ outcome = Return(FALSE, PyStr(<<"Must be of type ", "typed">>))

Sides == {TOP, BOTTOM, LEFT, RIGHT}

\* LabeledWidget.__new__: the 'direction' of the container made for `position`
LabeledDirection(position) ==
    <<position, IF position \in {LEFT, RIGHT} THEN TOP ELSE BOTTOM>>

\* the container of a LabeledWidget built for `position` without options has
\* been through a geometry call of its main widget (widget 1; the Label is
\* widget 2), which passes itself as rcoords and grids itself at the result
LabeledGeometryCall(position) ==
    /\ status # "constructed"
    /\ direction = LabeledDirection(position)
    /\ horizontal = 0
    /\ vertical = 0
    /\ nWidgets = 2
    /\ rcoords = 1

\* C18 (as claimed): for every position in {TOP, BOTTOM, LEFT, RIGHT} and no
\* 'direction' option, after a geometry call the Label is gridded next to
\* the wrapped widget on the side `position` names.
C18_LabelOnNamedSide ==
    \A position \in Sides :
        LabeledGeometryCall(position) =>
            /\ status = "returned"
            /\ LET main == ret
                   label == PlacedAt(placed, 2)
               IN  /\ position = LEFT => label = <<main[1] - 1, main[2]>>
                   /\ position = RIGHT => label = <<main[1] + 1, main[2]>>
                   /\ position = TOP => label = <<main[1], main[2] - 1>>
                   /\ position = BOTTOM => label = <<main[1], main[2] + 1>>

\* ------------------------------------------------------------------------
\* misc.tkstuff.forms: Form, ProtoWidget, FormWidget
\* ------------------------------------------------------------------------
\* declared elements of a Form subclass
MaxFields == 2

\* keys are strings; str.startswith is computed on their characters
IGNORE == <<"i", "g", "n", "o", "r", "e">>

startswith(k, prefix) ==
    Len(k) >= Len(prefix) /\ SubSeq(k, 1, Len(prefix)) = prefix

\* the value Python's None is written as in self.data
None == "<None>"

\* what a user may have typed into a widget
Contents == {"", "text"}

\* Elements of a Form subclass: the attribute name, the element data
\* ('groups') and whether the element class brings a .validate() of its own
\* ("required": empty content is invalid) or none
Elements ==
    { [key |-> <<"n", "a", "m", "e">>, groups |-> {}, validate |-> "required"],
      [key |-> <<"a", "g", "e">>, groups |-> {"a"}, validate |-> "absent"],
      [key |-> IGNORE \o <<"d">>, groups |-> {"a", "b"}, validate |-> "required"],
      [key |-> <<"i", "g", "n", "o", "r">>, groups |-> {"b"}, validate |-> "required"] }

Distinct(seq) ==
    \A i, j \in 1..Len(seq) : i # j => seq[i].key # seq[j].key

\* an options dict over the keyword-only arguments the model follows; a
\* key that is not in the dict holds <<>>, a key that is holds <<value>>
NoOptions == [error_handle |-> <<>>, onsubmit |-> <<>>]

\* dict.copy() followed by dict.update(new)
OptionsUpdate(old, new) ==
    [k \in DOMAIN old |-> IF new[k] # <<>> THEN new[k] ELSE old[k]]

\* ProtoWidget.__new__: the (name, widget) tuple with its data as attributes
ProtoWidget(key, widget, options) ==
    [key |-> key, validate |-> widget, groups |-> options.groups]

\* Form.__init_subclass__: an element without .validate() becomes a
\* ValidatedWidget with the validator lambda x: (True, x)
ElementWidget(element) ==
    IF element.validate = "absent" THEN "always" ELSE element.validate

\* Form.__init_subclass__: __formwidget_options from the nested FormWidget
\* class (`nested`), __widgets from the class body in declaration order
init_subclass(elements, nested) ==
    [widgets |-> [i \in 1..Len(elements) |->
                     ProtoWidget(elements[i].key, ElementWidget(elements[i]),
                                 [groups |-> elements[i].groups])],
     options |-> OptionsUpdate(NoOptions, nested)]

\* FormWidget.__init__: keyword defaults, widget_dict in the order given
FormWidget(widgets, kwargs) ==
    [widget_dict |-> widgets,
     error_handle |-> IF kwargs.error_handle = <<>> THEN {"LABEL", "POPUP"}
                      ELSE kwargs.error_handle[1],
     onsubmit |-> IF kwargs.onsubmit = <<>> THEN "noop" ELSE kwargs.onsubmit[1]]

\* Form.__new__: the widgets passed on to the FormWidget
ActiveWidgets_NoGroups(widgets, deactivate, ex_groups) ==
    SelectSeq(widgets, LAMBDA w : w.key \notin deactivate)

ActiveWidgets(widgets, deactivate, ex_groups) ==
    SelectSeq(widgets,
              LAMBDA w : w.key \notin deactivate /\ w.groups \cap ex_groups = {})

\* Form.__new__: the FormWidget made, and the class it leaves behind (the
\* class-level options are copied before the per-call options go in)
FormNewResult_NoCopy(class, deactivate, ex_groups, options) ==
    LET kwargs == OptionsUpdate(class.options, options)
        widgets == ActiveWidgets(class.widgets, deactivate, ex_groups)
    IN  [form |-> FormWidget(widgets, kwargs),
         class |-> [class EXCEPT !.options = kwargs]]

FormNewResult(class, deactivate, ex_groups, options) ==
    LET kwargs == OptionsUpdate(class.options, options)
        widgets == ActiveWidgets(class.widgets, deactivate, ex_groups)
    IN  [form |-> FormWidget(widgets, kwargs),
         class |-> class]

\* the widget's .validate(): (valid, data or message)
WidgetValidate(widget, text) ==
    IF widget.validate = "required" /\ text = ""
    THEN [valid |-> FALSE, data |-> "required"]
    ELSE [valid |-> TRUE, data |-> text]

\* self.data / self.errors are dicts kept as sequences of entries
HasEntry(dict, key) == \E i \in 1..Len(dict) : dict[i].key = key

EntryOf(dict, key) == dict[CHOOSE i \in 1..Len(dict) : dict[i].key = key]

SetEntry(dict, key, value) ==
    IF HasEntry(dict, key)
    THEN [i \in 1..Len(dict) |->
             IF dict[i].key = key THEN [key |-> key, value |-> value] ELSE dict[i]]
    ELSE Append(dict, [key |-> key, value |-> value])

\* collections.defaultdict(set).__getitem__: a missing key is entered
Touch(errs, key) ==
    IF HasEntry(errs, key) THEN errs ELSE SetEntry(errs, key, {})

\* FormWidget.clean_data: the loop over widget_dict from position i on;
\* `validated` logs the keys whose validator was called
RECURSIVE clean_data_NoSkip(_, _, _, _)
clean_data_NoSkip(widget_dict, texts, i, st) ==
    IF i > Len(widget_dict) THEN st
    ELSE LET k == widget_dict[i].key
             r == IF widget_dict[i].validate = "absent"
                  THEN [valid |-> TRUE, data |-> texts[i]]
                  ELSE WidgetValidate(widget_dict[i], texts[i])
             called == Append(st.validated, k)
         IN  IF r.valid
             THEN clean_data_NoSkip(widget_dict, texts, i + 1,
                      [st EXCEPT !.data = SetEntry(@, k, r.data),
                                 !.validated = called])
             ELSE clean_data_NoSkip(widget_dict, texts, i + 1,
                      [st EXCEPT !.data = SetEntry(@, k, None),
                                 !.errors = SetEntry(Touch(@, k), k,
                                     EntryOf(Touch(@, k), k).value \cup {r.data}),
                                 !.validated = called])

RECURSIVE clean_data(_, _, _, _)
clean_data(widget_dict, texts, i, st) ==
    IF i > Len(widget_dict) THEN st
    ELSE LET k == widget_dict[i].key
             r == IF widget_dict[i].validate = "absent"
                  THEN [valid |-> TRUE, data |-> texts[i]]
                  ELSE WidgetValidate(widget_dict[i], texts[i])
             called == Append(st.validated, k)
         IN  IF startswith(k, IGNORE)
             THEN clean_data(widget_dict, texts, i + 1, st)
             ELSE IF r.valid
             THEN clean_data(widget_dict, texts, i + 1,
                      [st EXCEPT !.data = SetEntry(@, k, r.data),
                                 !.validated = called])
             ELSE clean_data(widget_dict, texts, i + 1,
                      [st EXCEPT !.data = SetEntry(@, k, None),
                                 !.errors = SetEntry(Touch(@, k), k,
                                     EntryOf(Touch(@, k), k).value \cup {r.data}),
                                 !.validated = called])

\* FormWidget.validate, LABEL branch: '\n'.join(self.errors[k]) for every key
RECURSIVE LabelErrors(_, _, _)
LabelErrors(widget_dict, i, errs) ==
    IF i > Len(widget_dict) THEN errs
    ELSE LabelErrors(widget_dict, i + 1, Touch(errs, widget_dict[i].key))

\* FormWidget.validate
validate(self, texts) ==
    LET cleaned == clean_data(self.widget_dict, texts, 1,
                              [data |-> <<>>, errors |-> <<>>, validated |-> <<>>])
        errs == IF "LABEL" \in self.error_handle
                THEN LabelErrors(self.widget_dict, 1, cleaned.errors)
                ELSE cleaned.errors
    IN  [data |-> cleaned.data,
         errors |-> errs,
         validated |-> cleaned.validated,
         ret |-> ~ \E i \in 1..Len(errs) : errs[i].value # {}]

\* FormWidget.submit_action: what validate() leaves and the calls made to
\* onsubmit
submit_action_Always(self, texts) ==
    LET r == validate(self, texts)
    IN  [data |-> r.data, errors |-> r.errors, validated |-> r.validated,
         ret |-> r.ret,
         calls |-> <<[fn |-> self.onsubmit, data |-> r.data]>>]

submit_action(self, texts) ==
    LET r == validate(self, texts)
    IN  [data |-> r.data, errors |-> r.errors, validated |-> r.validated,
         ret |-> r.ret,
         calls |-> IF r.ret
                   THEN <<[fn |-> self.onsubmit, data |-> r.data]>>
                   ELSE <<>>]

\* ---- the form as a state machine ----
\* nested FormWidget classes a Form subclass may declare
NestedClasses ==
    { NoOptions,
      [error_handle |-> <<{"POPUP"}>>, onsubmit |-> <<>>],
      [error_handle |-> <<{"LABEL"}>>, onsubmit |-> <<"save">>] }

\* arguments of a call of the Form subclass
Deactivates == { {}, {<<"n", "a", "m", "e">>}, {<<"a", "g", "e">>, <<"x">>} }

ExGroups == { {}, {"a"}, {"b", "c"} }

CallOptions ==
    { NoOptions,
      [error_handle |-> <<{"LABEL", "POPUP"}>>, onsubmit |-> <<>>],
      [error_handle |-> <<>>, onsubmit |-> <<"print">>] }

\* class bodies: up to MaxFields elements under distinct names
ClassBodies == {es \in SeqsUpTo(Elements, MaxFields) : Distinct(es)}

\* the latest operation and its arguments; `overridden` tells whether an
\* earlier call of the class passed per-call options
Op(name, deactivate, ex_groups, options, overridden) ==
    [op |-> name, deactivate |-> deactivate, ex_groups |-> ex_groups,
     options |-> options, overridden |-> overridden]

Step(name) == Op(name, {}, {}, NoOptions, lastOp.overridden)

Bool(b) == IF b THEN "True" ELSE "False"

InitForm ==
    /\ formClass = <<>>
    /\ form = <<>>
    /\ content = <<>>
    /\ data = <<>>
    /\ errors = <<>>
    /\ result = "none"
    /\ validated = <<>>
    /\ onsubmitCalls = <<>>
    /\ lastOp = Op("none", {}, {}, NoOptions, FALSE)
    /\ setterCalls = <<>>
    /\ InitLayoutIdle
    /\ InitValidIdle
    /\ InitThreadsIdle

\* class X(Form): ...
InitSubclass(elements, nested) ==
    /\ formClass = <<>>
    /\ formClass' = [widgets |-> init_subclass(elements, nested).widgets,
                     options |-> init_subclass(elements, nested).options,
                     body |-> elements,
                     nested |-> nested]
    /\ lastOp' = Step("class")
    /\ UNCHANGED <<form, content, data, errors, result, validated, onsubmitCalls, setterCalls>>
    /\ UNCHANGED <<layoutVars, validVars, threadVars>>

\* X(master, deactivate, ex_groups, **options)
FormNew(deactivate, ex_groups, options) ==
    /\ formClass # <<>>
    /\ LET r == FormNewResult(formClass, deactivate, ex_groups, options)
       IN  /\ form' = r.form
           /\ formClass' = r.class
           /\ content' = [i \in 1..Len(r.form.widget_dict) |-> ""]
    /\ data' = <<>>
    /\ errors' = <<>>
    /\ result' = "none"
    /\ validated' = <<>>
    /\ onsubmitCalls' = <<>>
    /\ setterCalls' = <<>>
    /\ lastOp' = Op("new", deactivate, ex_groups, options,
                    lastOp.overridden \/ (lastOp.op = "new" /\ lastOp.options # NoOptions))
    /\ UNCHANGED <<layoutVars, validVars, threadVars>>

\* the user edits the widget at position i
SetContent(i, text) ==
    /\ form # <<>>
    /\ i \in 1..Len(content)
    /\ content[i] # text
    /\ content' = [content EXCEPT ![i] = text]
    /\ onsubmitCalls' = <<>>
    /\ lastOp' = Step("set")
    /\ UNCHANGED <<formClass, form, data, errors, result, validated, setterCalls>>
    /\ UNCHANGED <<layoutVars, validVars, threadVars>>

\* form.validate()
Validate ==
    /\ form # <<>>
    /\ LET r == validate(form, content)
       IN  /\ data' = r.data
           /\ errors' = r.errors
           /\ validated' = r.validated
           /\ result' = Bool(r.ret)
    /\ onsubmitCalls' = <<>>
    /\ lastOp' = Step("validate")
    /\ UNCHANGED <<formClass, form, content, setterCalls>>
    /\ UNCHANGED <<layoutVars, validVars, threadVars>>

\* the submit button is pressed
Submit ==
    /\ form # <<>>
    /\ LET r == submit_action(form, content)
       IN  /\ data' = r.data
           /\ errors' = r.errors
           /\ validated' = r.validated
           /\ result' = Bool(r.ret)
           /\ onsubmitCalls' = r.calls
    /\ lastOp' = Step("submit")
    /\ UNCHANGED <<formClass, form, content, setterCalls>>
    /\ UNCHANGED <<layoutVars, validVars, threadVars>>

NextForm ==
    \/ \E es \in ClassBodies, nested \in NestedClasses : InitSubclass(es, nested)
    \/ \E d \in Deactivates, g \in ExGroups, o \in CallOptions : FormNew(d, g, o)
    \/ \E i \in 1..MaxFields, text \in Contents : SetContent(i, text)
    \/ Validate
    \/ Submit

SpecForm == InitForm /\ [][NextForm]_vars

\* ---- claims about forms ----
Ignored(w) == startswith(w.key, IGNORE)

\* the widget at position i of the form reports its content valid
ReportsValid(i) == WidgetValidate(form.widget_dict[i], content[i]).valid

Fields == 1..Len(form.widget_dict)

\* self.data / self.errors are those of a validate() on the present contents
Fresh == lastOp.op \in {"validate", "submit"}

\* C16: validate() returns True exactly when every widget whose key does not
\* start with 'ignore' reports valid; afterwards self.data holds the
\* validated value under each valid such key and None under each invalid
\* one; a widget whose key starts with 'ignore' is not validated, has no
\* entry in self.data and no error message in self.errors.
C16_ValidateContract ==
    Fresh =>
        /\ result = Bool(\A i \in Fields :
                            Ignored(form.widget_dict[i]) \/ ReportsValid(i))
        /\ \A i \in Fields :
              LET w == form.widget_dict[i]
              IN  IF Ignored(w)
                  THEN /\ \A j \in 1..Len(validated) : validated[j] # w.key
                       /\ ~ HasEntry(data, w.key)
                       /\ HasEntry(errors, w.key) => EntryOf(errors, w.key).value = {}
                  ELSE /\ \E j \in 1..Len(validated) : validated[j] = w.key
                       /\ HasEntry(data, w.key)
                       /\ EntryOf(data, w.key).value =
                              IF ReportsValid(i) THEN content[i] ELSE None
                       /\ ReportsValid(i) <=>
                              (HasEntry(errors, w.key) => EntryOf(errors, w.key).value = {})

\* validate() returned True on a form holding a valid field and an ignored
\* widget whose own validator would have rejected its content
C16_Witness ==
    /\ Fresh
    /\ result = "True"
    /\ \E i \in Fields : ~ Ignored(form.widget_dict[i]) /\ content[i] = "text"
    /\ \E i \in Fields : Ignored(form.widget_dict[i]) /\ ~ ReportsValid(i)

\* C17: a trigger of submit_action calls onsubmit exactly once, with the
\* form's data, when validate() returns True for the present contents, and
\* not at all when a field is invalid; onsubmit is never handed data holding
\* a field that failed validation.
C17_SubmitCallsOnce ==
    /\ onsubmitCalls # <<>> => lastOp.op = "submit"
    /\ lastOp.op = "submit" =>
          IF \A i \in Fields : Ignored(form.widget_dict[i]) \/ ReportsValid(i)
          THEN onsubmitCalls = <<[fn |-> form.onsubmit, data |-> data]>>
          ELSE onsubmitCalls = <<>>
    /\ \A c \in 1..Len(onsubmitCalls) :
          \A i \in Fields :
              HasEntry(onsubmitCalls[c].data, form.widget_dict[i].key) =>
                  /\ ReportsValid(i)
                  /\ EntryOf(onsubmitCalls[c].data, form.widget_dict[i].key).value # None

\* a submit that handed two validated fields to the class's onsubmit
C17_Witness ==
    /\ lastOp.op = "submit"
    /\ Len(onsubmitCalls) = 1
    /\ onsubmitCalls[1].fn = "save"
    /\ Len(onsubmitCalls[1].data) = 2

\* the n-th smallest member of a set of positions
Nth(S, n) == CHOOSE i \in S : Cardinality({k \in S : k < i}) = n - 1

\* the value an option of the new form takes: per-call, else class-level,
\* else the default of FormWidget.__init__
Effective(option, default) ==
    IF lastOp.options[option] # <<>> THEN lastOp.options[option][1]
    ELSE IF formClass.nested[option] # <<>> THEN formClass.nested[option][1]
    ELSE default

\* C19: calling a Form subclass makes a form of exactly the declared
\* elements whose key is not in `deactivate` and whose groups are disjoint
\* from `ex_groups`, in declaration order; per-call options override the
\* class-level options for this form, and the class-level options stay as
\* declared for later calls.
C19_FormFromClass ==
    /\ formClass # <<>> => formClass.options = formClass.nested
    /\ lastOp.op = "new" =>
          LET kept == {i \in 1..Len(formClass.body) :
                          /\ formClass.body[i].key \notin lastOp.deactivate
                          /\ formClass.body[i].groups \cap lastOp.ex_groups = {}}
          IN  /\ Len(form.widget_dict) = Cardinality(kept)
              /\ \A n \in 1..Cardinality(kept) :
                    form.widget_dict[n].key = formClass.body[Nth(kept, n)].key
              /\ form.error_handle = Effective("error_handle", {"LABEL", "POPUP"})
              /\ form.onsubmit = Effective("onsubmit", "noop")

\* a later call without options, after a call that overrode the class's
\* onsubmit, on a class of two elements one of which is excluded by group
C19_Witness ==
    /\ lastOp.op = "new"
    /\ lastOp.overridden
    /\ lastOp.options = NoOptions
    /\ lastOp.ex_groups = {"a"}
    /\ Len(formClass.body) = 2
    /\ Len(form.widget_dict) = 1
    /\ form.onsubmit = "save"

\* ---- FormWidget constructed directly, with default_content ----
\* the widgets handed to FormWidget(master, *widgets, ...)
WidgetSpecs ==
    Elements \cup {[key |-> <<"a">>, groups |-> {}, validate |-> "absent"]}

WidgetLists == {ws \in SeqsUpTo(WidgetSpecs, MaxFields) : Distinct(ws)}

\* default_content mappings, as the entries of the dict in insertion order
DefaultContents ==
    { <<>>,
      <<[key |-> <<"n", "a", "m", "e">>, value |-> "text"]>>,
      <<[key |-> <<"a", "g", "e">>, value |-> "text"]>>,
      <<[key |-> <<"a", "g", "e">>, value |-> "text"],
        [key |-> <<"n", "a", "m", "e">>, value |-> "text"]>>,
      <<[key |-> <<"a">>, value |-> "text"]>>,
      <<[key |-> <<"a", "g">>, value |-> "text"]>>,
      <<[key |-> <<"a", "g">>, value |-> "text"],
        [key |-> <<"a", "g", "e">>, value |-> "text"]>> }

\* position of key k in widget_dict
IndexOf(widget_dict, k) == CHOOSE i \in 1..Len(widget_dict) : widget_dict[i].key = k

\* misc.tkstuff.get_setter(widget)(v): the widget's setting method is
\* called with v and the widget shows v
get_setter(st, widget_dict, k, v) ==
    [st EXCEPT !.calls = Append(@, [key |-> k, value |-> v]),
               !.content[IndexOf(widget_dict, k)] = v]

\* FormWidget.__init__: `for k, v in default_content:` from entry i on.
\* Iterating the dict yields its keys; each key, a string, is unpacked into
\* k, v: two characters, or ValueError
RECURSIVE DefaultLoop(_, _, _, _)
DefaultLoop(widget_dict, default_content, i, st) ==
    IF i > Len(default_content) THEN st
    ELSE LET item == default_content[i].key
         IN  IF Len(item) # 2
             THEN [st EXCEPT !.raised = "ValueError"]
             ELSE LET k == <<item[1]>>
                      v == item[2]
                  IN  IF ~ HasEntry(widget_dict, k)
                      THEN [st EXCEPT !.raised = "KeyError"]
                      ELSE DefaultLoop(widget_dict, default_content, i + 1,
                                       get_setter(st, widget_dict, k, v))

InitDefaults ==
    /\ formClass = <<>>
    /\ form = <<>>
    /\ content = <<>>
    /\ data = <<>>
    /\ errors = <<>>
    /\ result = "none"
    /\ validated = <<>>
    /\ onsubmitCalls = <<>>
    /\ lastOp = [op |-> "none", widgets |-> <<>>, default_content |-> <<>>]
    /\ setterCalls = <<>>
    /\ InitLayoutIdle
    /\ InitValidIdle
    /\ InitThreadsIdle

\* FormWidget(master, *widgets, default_content=default_content)
FormWidgetInit(widgets, default_content) ==
    LET self == FormWidget(widgets, NoOptions)
        st == DefaultLoop(self.widget_dict, default_content, 1,
                          [calls |-> <<>>,
                           content |-> [i \in 1..Len(widgets) |-> ""],
                           raised |-> "none"])
    IN  /\ form' = IF st.raised = "none" THEN self ELSE <<>>
        /\ content' = st.content
        /\ setterCalls' = st.calls
        /\ result' = IF st.raised = "none" THEN "constructed" ELSE st.raised
        /\ lastOp' = [op |-> "init", widgets |-> widgets,
                      default_content |-> default_content]
        /\ UNCHANGED <<formClass, data, errors, validated, onsubmitCalls>>
        /\ UNCHANGED <<layoutVars, validVars, threadVars>>

NextDefaults ==
    \E ws \in WidgetLists, dc \in DefaultContents : FormWidgetInit(ws, dc)

SpecDefaults == InitDefaults /\ [][NextDefaults]_vars

\* every field named by the mapping is a widget of the form
FieldsRegistered ==
    \A e \in 1..Len(lastOp.default_content) :
        HasEntry(lastOp.widgets, lastOp.default_content[e].key)

\* C21 (as claimed): construction with a default_content mapping whose
\* fields are widgets of the form succeeds, calls for every entry k -> v the
\* setter of the widget under k exactly once with v, and calls no other
\* setter.
C21_DefaultContentApplied ==
    (lastOp.op = "init" /\ FieldsRegistered)
    => /\ result = "constructed"
       /\ Len(setterCalls) = Len(lastOp.default_content)
       /\ \A e \in 1..Len(lastOp.default_content) :
             Cardinality({c \in 1..Len(setterCalls) :
                             setterCalls[c] = lastOp.default_content[e]}) = 1

\* ------------------------------------------------------------------------
\* misc.threadsafe_method on an instance whose lock is a threading.RLock
\* ------------------------------------------------------------------------
\* threads calling wrapped methods of the one instance
NumThreads == 2

\* wrapped methods called from inside wrapped methods
MaxDepth == 2

Threads == 1..NumThreads

NoOwner == 0

\* RLock.acquire by thread t (the lock is free or already t's)
RLockAcquire(l, t) == [owner |-> t, count |-> l.count + 1]

\* RLock.release
RLockRelease(l) ==
    IF l.count = 1 THEN [owner |-> NoOwner, count |-> 0]
    ELSE [l EXCEPT !.count = @ - 1]

Top(frames) == frames[Len(frames)]

Pop(frames) == SubSeq(frames, 1, Len(frames) - 1)

InitThreads ==
    /\ lock = [owner |-> NoOwner, count |-> 0]
    /\ stack = [t \in Threads |-> <<>>]
    /\ finished = [t \in Threads |-> "none"]
    /\ InitLayoutIdle
    /\ InitValidIdle
    /\ InitFormIdle

\* thread t calls a wrapped method (from outside, or from the body of one
\* it is running) and arrives at `with getattr(self, name):`
CallMethod(t) ==
    /\ Len(stack[t]) < MaxDepth
    /\ stack[t] # <<>> => Top(stack[t]) = "body"
    /\ stack' = [stack EXCEPT ![t] = Append(@, "with")]
    /\ UNCHANGED <<lock, finished>>
    /\ UNCHANGED <<layoutVars, validVars, formVars>>

\* __enter__ of the lock succeeds and meth(self, ...) starts
Acquire(t) ==
    /\ stack[t] # <<>>
    /\ Top(stack[t]) = "with"
    /\ lock.owner \in {NoOwner, t}
    /\ lock' = RLockAcquire(lock, t)
    /\ stack' = [stack EXCEPT ![t] = Append(Pop(@), "body")]
    /\ UNCHANGED finished
    /\ UNCHANGED <<layoutVars, validVars, formVars>>

\* meth returns: the with statement releases the lock
MethodReturns(t) ==
    /\ stack[t] # <<>>
    /\ Top(stack[t]) = "body"
    /\ lock' = RLockRelease(lock)
    /\ stack' = [stack EXCEPT ![t] = Pop(@)]
    /\ finished' = [finished EXCEPT ![t] = "returned"]
    /\ UNCHANGED <<layoutVars, validVars, formVars>>

\* meth raises: the with statement releases the lock and the exception
\* goes on to the caller
MethodRaises_KeepsLock(t) ==
    /\ stack[t] # <<>>
    /\ Top(stack[t]) = "body"
    /\ lock' = lock
    /\ stack' = [stack EXCEPT ![t] = Pop(@)]
    /\ finished' = [finished EXCEPT ![t] = "raised"]
    /\ UNCHANGED <<layoutVars, validVars, formVars>>

MethodRaises(t) ==
    /\ stack[t] # <<>>
    /\ Top(stack[t]) = "body"
    /\ lock' = RLockRelease(lock)
    /\ stack' = [stack EXCEPT ![t] = Pop(@)]
    /\ finished' = [finished EXCEPT ![t] = "raised"]
    /\ UNCHANGED <<layoutVars, validVars, formVars>>

NextThreads ==
    \E t \in Threads :
        \/ CallMethod(t)
        \/ Acquire(t)
        \/ MethodReturns(t)
        \/ MethodRaises(t)

SpecThreads == InitThreads /\ [][NextThreads]_vars

\* the method bodies thread t is executing
Bodies(t) == {i \in 1..Len(stack[t]) : stack[t][i] = "body"}

\* C20: a wrapped method's body runs only while its thread holds the
\* instance's lock, so no two threads are inside bodies at once; every
\* return and every raise gives the lock back, so the lock is held exactly
\* as often as its owner has bodies running and is free when none runs
\* (a later caller can enter).
C20_BodiesHoldTheLock ==
    /\ \A t \in Threads : Bodies(t) # {} => lock.owner = t
    /\ \A t, u \in Threads : (Bodies(t) # {} /\ Bodies(u) # {}) => t = u
    /\ lock.owner # NoOwner => lock.count = Cardinality(Bodies(lock.owner))
    /\ (\A t \in Threads : Bodies(t) = {}) => lock = [owner |-> NoOwner, count |-> 0]
    /\ \A t \in Threads :
          (stack[t] # <<>> /\ Top(stack[t]) = "with" /\ \A u \in Threads : Bodies(u) = {})
              => lock.owner \in {NoOwner, t}

\* a call of thread 1 raised, after which thread 2 runs a body while
\* thread 1 waits at the lock with a new call
C20_Witness ==
    /\ finished[1] = "raised"
    /\ stack[1] = <<"with">>
    /\ Bodies(2) # {}
    /\ lock.owner = 2

====
